---- MODULE Spec2Model ----
(***************************************************************************)
(* Model of the brian Brainfuck compiler and interpreter                   *)
(* (src/brian/src/brainfuck.rs, src/brian/src/brainfuck/interpreter.rs).   *)
(*                                                                         *)
(* Two Brainfuck units are built from the same BrainfuckState; one is      *)
(* compiled with compile, the other with compile_without_optimizations,    *)
(* and both are run.  Everything is single threaded: one call is active at *)
(* a time (cur, pc).  A panic ends the call that raised it.  A unit whose   *)
(* run returned is compiled once more when both units have finished.       *)
(*                                                                         *)
(* Indices into instruction sequences are 0-based as in the source; At     *)
(* and SetAt translate to the 1-based TLA+ sequences.                      *)
(***************************************************************************)
EXTENDS Integers, Sequences, FiniteSets, TLC

(* ----------------------------- bounds ---------------------------------- *)

\* every source text of at most MaxLen instruction characters is compiled
MaxLen == 3
\* the tape mask has MaskBits one-bits (16 in the source)
MaskBits == 2
\* width of usize (64 in the source)
UsizeBits == 4
\* a run is followed until it has written MaxOutput bytes
MaxOutput == 3

(* --------------------------- program constants ------------------------- *)

RECURSIVE Pow2(_)
Pow2(n) == IF n = 0 THEN 1 ELSE 2 * Pow2(n - 1)

\* const MEMORY_SIZE: usize = 0xffff, an all-ones bit mask
MEMORY_SIZE == Pow2(MaskBits) - 1
\* the mask interpreter.rs imports from the parent module
MEMORY_MASK == MEMORY_SIZE
\* usize arithmetic wraps modulo USIZE
USIZE == Pow2(UsizeBits)
\* u8 arithmetic wraps modulo U8
U8 == 256

RECURSIVE BitAnd(_, _)
BitAnd(x, y) ==
  IF x = 0 \/ y = 0 THEN 0
  ELSE (x % 2) * (y % 2) + 2 * BitAnd(x \div 2, y \div 2)

\* usize::wrapping_add_signed
wrapping_add_signed(p, d) == (p + d) % USIZE

\* u8::wrapping_add(x, d as u8) and u8::wrapping_add_signed(x, d as i8)
wrapping_add(x, d) == (x + d) % U8

(* ------------------------------ opcodes -------------------------------- *)

Increment(o, d) == [op |-> "Increment", a |-> o, b |-> d]
Set(o, v) == [op |-> "Set", a |-> o, b |-> v]
MovePointer(d) == [op |-> "MovePointer", a |-> d, b |-> 0]
LoopStart(t) == [op |-> "LoopStart", a |-> t, b |-> 0]
LoopEnd(t) == [op |-> "LoopEnd", a |-> t, b |-> 0]
Output(o) == [op |-> "Output", a |-> o, b |-> 0]
Input(o) == [op |-> "Input", a |-> o, b |-> 0]
ScanZero(d) == [op |-> "ScanZero", a |-> d, b |-> 0]
Eof == [op |-> "Eof", a |-> 0, b |-> 0]

At(s, i) == s[i + 1]
SetAt(s, i, v) == [s EXCEPT ![i + 1] = v]

\* impl From<Token> for Opcode
OpcodeFrom(token) ==
  CASE token = "Increment" -> Increment(0, 1)
    [] token = "Decrement" -> Increment(0, -1)
    [] token = "MovePointerLeft" -> MovePointer(-1)
    [] token = "MovePointerRight" -> MovePointer(1)
    [] token = "LoopStart" -> LoopStart(0)
    [] token = "LoopEnd" -> LoopEnd(0)
    [] token = "Output" -> Output(0)
    [] token = "Input" -> Input(0)

\* the match of brainfuck_tokens: the token of a character, "None" for a comment
TokenOf(x) ==
  CASE x = "+" -> "Increment"
    [] x = "-" -> "Decrement"
    [] x = "<" -> "MovePointerLeft"
    [] x = ">" -> "MovePointerRight"
    [] x = "[" -> "LoopStart"
    [] x = "]" -> "LoopEnd"
    [] x = "." -> "Output"
    [] x = "," -> "Input"
    [] OTHER -> "None"

\* code.chars().filter_map(..)
RECURSIVE brainfuck_tokens(_)
brainfuck_tokens(chars) ==
  IF chars = << >> THEN << >>
  ELSE LET t == TokenOf(Head(chars))
       IN  IF t = "None" THEN brainfuck_tokens(Tail(chars))
           ELSE <<t>> \o brainfuck_tokens(Tail(chars))

\* parse without the chained end marker
parse_without_eof(chars) ==
  LET toks == brainfuck_tokens(chars)
  IN  [i \in 1..Len(toks) |-> OpcodeFrom(toks[i])]

\* Brainfuck::parse
parse(chars) ==
  LET toks == brainfuck_tokens(chars)
  IN  [i \in 1..Len(toks) |-> OpcodeFrom(toks[i])] \o <<Eof>>

(* ------------------------------ link_loops ----------------------------- *)

\* the for loop of link_loops from index on, with the stack of open loop
\* starts; the result is the patched sequence or the panic that ends the scan
RECURSIVE LinkScan(_, _, _)
LinkScan(s, index, stack) ==
  IF index >= Len(s)
  THEN IF stack = << >>
       THEN [panic |-> "none", ops |-> s, at |-> index]
       ELSE [panic |-> "Unclosed loop", ops |-> s, at |-> index]
  ELSE LET o == At(s, index)
       IN  CASE o.op = "LoopStart" -> LinkScan(s, index + 1, Append(stack, index))
             [] o.op = "LoopEnd" ->
                  IF stack = << >>
                  THEN [panic |-> "Unexpected loop end", ops |-> s, at |-> index]
                  ELSE LET start_index == stack[Len(stack)]
                           patched == SetAt(SetAt(s, start_index, LoopStart(index)),
                                            index, LoopEnd(start_index))
                       IN  LinkScan(patched, index + 1, SubSeq(stack, 1, Len(stack) - 1))
             [] OTHER -> LinkScan(s, index + 1, stack)

\* link_loops without its final assert!(stack.is_empty())
link_loops_unasserted(s) ==
  LET r == LinkScan(s, 0, << >>)
  IN  IF r.panic = "Unclosed loop" THEN [r EXCEPT !.panic = "none"] ELSE r

link_loops(s) == LinkScan(s, 0, << >>)

(* ------------------------------ inputs --------------------------------- *)

Alphabet == {"+", "-", "<", ">", "[", "]", ".", ","}

StringsUpTo(n) == UNION {[1..k -> Alphabet] : k \in 0..n}

\* longer programs: comments, nested and repeated idioms, offsets that alias
\* modulo the mask, I/O between pending effects
ExtraSources ==
  { <<"a", "+", " ", "+", "b">>,
    <<"[", "[", "-", "]", "]">>,
    <<"+", "[", ">", "[", "+", "]", "]">>,
    <<"+", "+", "[", "-", "]", "-", "-", ".">>,
    <<"[", "-", "]", "[", "+", "]", "+">>,
    <<"+", ">", "-", "<", "+", "+">>,
    <<"+", "[", ">", "+", "<", "-", "]", ">", ".">>,
    <<"[", "[", ">", ">", "]", "<", "]">>,
    <<",", "+", ".", ",", ".">>,
    <<"+", ">", ">", ">", ">", ".">>,
    <<"[", "-", "]", ">", ">", ">", ">", "+">>,
    <<"+", ">", "+", "<", "[", ">", "]", "+">>,
    <<"[", "+", "]", "]", "[">>,
    <<"+", "+", "[", ">", "[", ".", "]", "<", "]">>,
    <<"[", ">", "<", "]">>,
    <<"[", ">", ">", "]">>,
    <<"-", "[", "<", "<", "<", "]", "+">>,
    <<"+", "[", "[", "-", "]">>,
    <<"+", ">", "+", ".">>,
    <<">", "[", "-", "]", "-">>,
    <<"[", "+", "]", "+", "-", "+", ".">> }

Sources == StringsUpTo(MaxLen) \cup ExtraSources

Tape == 0..(MEMORY_SIZE - 1)

\* BrainfuckState::new
new_state == [memory |-> [i \in Tape |-> 0], pointer |-> 0]

\* the states handed to new_with_state
InitStates ==
  { new_state,
    [memory |-> [i \in Tape |-> IF i < MEMORY_SIZE - 1 THEN 1 ELSE 0], pointer |-> 0],
    [memory |-> [i \in Tape |-> 255], pointer |-> MEMORY_SIZE - 1] }

\* the bytes waiting on standard input
InputStreams == {<<65, 66>>}

\* the two run methods of the repository
Builds == {"brainfuck.rs", "interpreter.rs"}

\* the unit compiled by compile and the unit compiled by compile_without_optimizations
Units == {"optimized", "plain"}

(* ------------------------------ state ---------------------------------- *)

VARIABLES
  code,             \* the source text given to both compile calls
  build,            \* which run method the crate is built with
  program,          \* Brainfuck.program of each unit
  memory,           \* Brainfuck.state.memory of each unit
  pointer,          \* Brainfuck.state.pointer of each unit
  stdin,            \* bytes not yet read from the input of each unit's run
  stdout,           \* bytes written by each unit's run
  status,           \* "new", "compiled", "halted", "panicked" or "recompiled", per unit
  panic,            \* the panic message that ended a unit's call, or "none"
  cur,              \* the unit whose call is executing, or "none"
  pc,               \* "idle", "optimize" (inside optimize) or "run" (inside run)
  ops,              \* optimize: its argument
  index,            \* optimize: scan position
  block_effects,    \* optimize: pending cell effects by relative offset
  ptr_offset,       \* optimize: pending pointer movement
  output_ops,       \* optimize: instructions emitted so far
  program_counter   \* run: index of the next instruction

unitVars == <<program, memory, pointer, stdin, stdout, status, panic>>
optVars == <<ops, index, block_effects, ptr_offset, output_ops>>
vars == <<code, build, program, memory, pointer, stdin, stdout, status, panic,
          cur, pc, ops, index, block_effects, ptr_offset, output_ops, program_counter>>

NoEffects == [k \in {} |-> 0]

HasInput(chars) == \E i \in 1..Len(chars) : chars[i] = ","

\* Brainfuck::new_with_state for both units, from the same state
Init ==
  /\ code \in Sources
  /\ build \in (IF HasInput(code) THEN Builds ELSE {"brainfuck.rs"})
  /\ \E s \in InitStates :
       /\ memory = [u \in Units |-> s.memory]
       /\ pointer = [u \in Units |-> s.pointer]
  /\ program = [u \in Units |-> << >>]
  /\ stdin \in {[u \in Units |-> i] :
                  i \in (IF HasInput(code) THEN InputStreams ELSE {<< >>})}
  /\ stdout = [u \in Units |-> << >>]
  /\ status = [u \in Units |-> "new"]
  /\ panic = [u \in Units |-> "none"]
  /\ cur = "none"
  /\ pc = "idle"
  /\ ops = << >>
  /\ index = 0
  /\ block_effects = NoEffects
  /\ ptr_offset = 0
  /\ output_ops = << >>
  /\ program_counter = 0

\* a call of unit u ends in a panic with message msg
Panics(u, msg) ==
  /\ status' = [status EXCEPT ![u] = "panicked"]
  /\ panic' = [panic EXCEPT ![u] = msg]
  /\ cur' = "none"
  /\ pc' = "idle"

\* optimize's locals are dropped
OptReset ==
  /\ ops' = << >>
  /\ index' = 0
  /\ block_effects' = NoEffects
  /\ ptr_offset' = 0
  /\ output_ops' = << >>

(* ------------------------------ compile -------------------------------- *)

\* the first call on unit u is over: its run returned or panicked, or it was
\* compiled again after its run
Finished(u) == status[u] \in {"halted", "panicked", "recompiled"}

\* the compile calls the client makes: one on a new unit, and one more on a unit
\* that holds a program and state left by its run, once both units have finished
CanCompile(u) ==
  \/ status[u] = "new"
  \/ /\ status[u] = "halted"
     /\ program[u] # << >>
     /\ \A v \in Units : Finished(v)

\* the status of unit u after the compile call returned
AfterCompile(u) == IF status[u] = "new" THEN "compiled" ELSE "recompiled"

\* compile_without_optimizations linking self.program in place
compile_in_place ==
  /\ pc = "idle"
  /\ CanCompile("plain")
  /\ LET r == link_loops(parse(code))
     IN  /\ program' = [program EXCEPT !["plain"] = r.ops]
         /\ IF r.panic # "none"
            THEN Panics("plain", r.panic)
            ELSE /\ status' = [status EXCEPT !["plain"] = AfterCompile("plain")]
                 /\ UNCHANGED <<panic, cur, pc>>
  /\ UNCHANGED <<code, build, memory, pointer, stdin, stdout, optVars, program_counter>>

\* compile_without_optimizations building a fresh BrainfuckState as well
compile_resetting_state ==
  /\ pc = "idle"
  /\ CanCompile("plain")
  /\ LET r == link_loops(parse(code))
     IN  IF r.panic # "none"
         THEN /\ Panics("plain", r.panic)
              /\ UNCHANGED <<program, memory, pointer>>
         ELSE /\ program' = [program EXCEPT !["plain"] = r.ops]
              /\ memory' = [memory EXCEPT !["plain"] = new_state.memory]
              /\ pointer' = [pointer EXCEPT !["plain"] = new_state.pointer]
              /\ status' = [status EXCEPT !["plain"] = AfterCompile("plain")]
              /\ UNCHANGED <<panic, cur, pc>>
  /\ UNCHANGED <<code, build, stdin, stdout, optVars, program_counter>>

\* compile_without_optimizations: parse, link_loops, install
compile_without_optimizations ==
  /\ pc = "idle"
  /\ CanCompile("plain")
  /\ LET r == link_loops(parse(code))
     IN  IF r.panic # "none"
         THEN /\ Panics("plain", r.panic)
              /\ UNCHANGED program
         ELSE /\ program' = [program EXCEPT !["plain"] = r.ops]
              /\ status' = [status EXCEPT !["plain"] = AfterCompile("plain")]
              /\ UNCHANGED <<panic, cur, pc>>
  /\ UNCHANGED <<code, build, memory, pointer, stdin, stdout, optVars, program_counter>>

\* compile up to the call of optimize: parse and the first link_loops
compile ==
  /\ pc = "idle"
  /\ CanCompile("optimized")
  /\ LET r == link_loops(parse(code))
     IN  IF r.panic # "none"
         THEN /\ Panics("optimized", r.panic)
              /\ UNCHANGED optVars
         ELSE /\ cur' = "optimized"
              /\ pc' = "optimize"
              /\ ops' = r.ops
              /\ index' = 0
              /\ block_effects' = NoEffects
              /\ ptr_offset' = 0
              /\ output_ops' = << >>
              /\ UNCHANGED <<status, panic>>
  /\ UNCHANGED <<code, build, program, memory, pointer, stdin, stdout, program_counter>>

(* ------------------------------ optimize ------------------------------- *)

\* BlockEffect
EffectIncrement(n) == [kind |-> "Increment", v |-> n]
EffectSet(n) == [kind |-> "Set", v |-> n]

\* HashMap::insert
Insert(m, k, e) == [x \in (DOMAIN m) \cup {k} |-> IF x = k THEN e ELSE m[x]]
\* HashMap::remove
Remove(m, k) == [x \in (DOMAIN m) \ {k} |-> m[x]]

\* BlockCommit::opcode: the instruction of a pending effect, if it has one
opcode(k, e) ==
  IF e.kind = "Increment"
  THEN IF e.v = 0 THEN << >> ELSE <<Increment(k, e.v)>>
  ELSE <<Set(k, e.v)>>

\* the orders in which a HashMap with key set S may be iterated
Orders(S) == {o \in [1..Cardinality(S) -> S] : \A i, j \in DOMAIN o : i # j => o[i] # o[j]}

\* "for effect in &block_effects { effect.commit(&mut output_ops) }" in iteration order o
RECURSIVE CommitAll(_, _)
CommitAll(m, o) ==
  IF o = << >> THEN << >>
  ELSE opcode(Head(o), m[Head(o)]) \o CommitAll(m, Tail(o))

\* the pending pointer movement as an instruction
CommitPointer(off) == IF off # 0 THEN <<MovePointer(off)>> ELSE << >>

\* isize::abs
abs(n) == IF n < 0 THEN -n ELSE n

\* the optimizer is looking at the instruction ops[index]
Optimizing == pc = "optimize" /\ index < Len(ops)
op == At(ops, index)

\* an increment that replaces the pending effect instead of merging into it
MergeIncrementOverwrite(m, off, offset, increment) ==
  Insert(m, offset + off, EffectIncrement(increment))

\* an increment that adds to a pending set without the 8-bit wraparound
MergeIncrementUnwrapped(m, off, offset, increment) ==
  IF off \in DOMAIN m
  THEN [m EXCEPT ![off] = [kind |-> m[off].kind, v |-> m[off].v + increment]]
  ELSE Insert(m, offset + off, EffectIncrement(increment))

\* Opcode::Increment(offset, increment): merge into the pending effect
MergeIncrement(m, off, offset, increment) ==
  IF off \in DOMAIN m
  THEN IF m[off].kind = "Increment"
       THEN [m EXCEPT ![off] = EffectIncrement(m[off].v + increment)]
       ELSE [m EXCEPT ![off] = EffectSet(wrapping_add(m[off].v, increment))]
  ELSE Insert(m, offset + off, EffectIncrement(increment))

OptIncrement ==
  /\ Optimizing
  /\ op.op = "Increment"
  /\ block_effects' = MergeIncrement(block_effects, ptr_offset, op.a, op.b)
  /\ index' = index + 1
  /\ UNCHANGED <<code, build, unitVars, cur, pc, ops, ptr_offset, output_ops, program_counter>>

\* Opcode::MovePointer(diff)
OptMovePointer ==
  /\ Optimizing
  /\ op.op = "MovePointer"
  /\ ptr_offset' = ptr_offset + op.a
  /\ index' = index + 1
  /\ UNCHANGED <<code, build, unitVars, cur, pc, ops, block_effects, output_ops, program_counter>>

\* a partial commit that re-emits the instruction with its original offset
PartialCommitOriginalOffset(m, relative_pos, o) ==
  (IF relative_pos \in DOMAIN m THEN opcode(relative_pos, m[relative_pos]) ELSE << >>)
    \o <<o>>

\* what the partial commit of an Output or Input at relative_pos emits
PartialCommit(m, relative_pos, o) ==
  (IF relative_pos \in DOMAIN m THEN opcode(relative_pos, m[relative_pos]) ELSE << >>)
    \o <<IF o.op = "Output" THEN Output(relative_pos) ELSE Input(relative_pos)>>

\* Opcode::Output(out_offset) | Opcode::Input(out_offset)
OptOutputInput ==
  /\ Optimizing
  /\ op.op \in {"Output", "Input"}
  /\ LET relative_pos == ptr_offset + op.a
     IN  /\ output_ops' = output_ops \o PartialCommit(block_effects, relative_pos, op)
         /\ block_effects' = Remove(block_effects, relative_pos)
  /\ index' = index + 1
  /\ UNCHANGED <<code, build, unitVars, cur, pc, ops, ptr_offset, program_counter>>

\* ops[index + 1] after "index += 1" lies outside ops
LookaheadOutOfBounds(s, i) == At(s, i).op = "LoopStart" /\ i + 2 >= Len(s)

\* a clear-loop test that knows "[-]" only
IsClearLoopDecrementOnly(s, i) ==
  /\ At(s, i).op = "LoopStart"
  /\ ~LookaheadOutOfBounds(s, i)
  /\ At(s, i + 2).op = "LoopEnd"
  /\ At(s, i + 1).op = "Increment"
  /\ At(s, i + 1).a = 0
  /\ At(s, i + 1).b = -1

\* the "[-]" / "[+]" test at the LoopStart s[i]
IsClearLoop(s, i) ==
  /\ At(s, i).op = "LoopStart"
  /\ ~LookaheadOutOfBounds(s, i)
  /\ At(s, i + 2).op = "LoopEnd"
  /\ At(s, i + 1).op = "Increment"
  /\ At(s, i + 1).a = 0
  /\ abs(At(s, i + 1).b) % 2 = 1

\* the pending effect a recognized clear loop leaves
ClearLoopEffects(m, off) == Insert(m, off, EffectSet(0))

\* a clear-loop rewrite that steps over the loop start and the increment only
OptClearLoopKeepsEnd ==
  /\ Optimizing
  /\ IsClearLoop(ops, index)
  /\ index' = index + 2
  /\ block_effects' = ClearLoopEffects(block_effects, ptr_offset)
  /\ UNCHANGED <<code, build, unitVars, cur, pc, ops, ptr_offset, output_ops, program_counter>>

OptClearLoop ==
  /\ Optimizing
  /\ IsClearLoop(ops, index)
  /\ index' = index + 3
  /\ block_effects' = ClearLoopEffects(block_effects, ptr_offset)
  /\ UNCHANGED <<code, build, unitVars, cur, pc, ops, ptr_offset, output_ops, program_counter>>

\* &ops[index..*end] after "index += 1" is not a slice of ops
SliceOutOfBounds(s, i) ==
  At(s, i).op = "LoopStart" /\ (i + 1 > At(s, i).a \/ At(s, i).a > Len(s))

RECURSIVE SumMoves(_, _, _)
SumMoves(s, from, to) ==
  IF from >= to THEN 0 ELSE At(s, from).a + SumMoves(s, from + 1, to)

\* mov_sum of the loop starting at s[i]
mov_sum(s, i) == SumMoves(s, i + 1, At(s, i).a)

\* a zero-scan test without "if mov_sum == 0 { break 'outer }"
IsScanLoopAnySum(s, i) ==
  /\ At(s, i).op = "LoopStart"
  /\ ~SliceOutOfBounds(s, i)
  /\ \A j \in (i + 1)..(At(s, i).a - 1) : At(s, j).op = "MovePointer"

\* the zero-scan test at the LoopStart s[i]: only moves up to its end, summing to non-zero
IsScanLoop(s, i) ==
  /\ At(s, i).op = "LoopStart"
  /\ ~SliceOutOfBounds(s, i)
  /\ \A j \in (i + 1)..(At(s, i).a - 1) : At(s, j).op = "MovePointer"
  /\ mov_sum(s, i) # 0

\* a commit point: Eof, LoopStart or LoopEnd that is not a clear loop
CommitPoint ==
  /\ Optimizing
  /\ op.op \in {"Eof", "LoopStart", "LoopEnd"}
  /\ ~IsClearLoop(ops, index)

\* the full commit: every pending effect in iteration order o, then the pointer
FullCommit(m, o, off) == CommitAll(m, o) \o CommitPointer(off)

\* the instruction that replaces a zero-scan loop
ScanLoopOpcode(s, i) == ScanZero(mov_sum(s, i))

OptScanLoop ==
  /\ CommitPoint
  /\ ~LookaheadOutOfBounds(ops, index)
  /\ IsScanLoop(ops, index)
  /\ \E o \in Orders(DOMAIN block_effects) :
       output_ops' = output_ops \o FullCommit(block_effects, o, ptr_offset)
                                \o <<ScanLoopOpcode(ops, index)>>
  /\ block_effects' = NoEffects
  /\ ptr_offset' = 0
  /\ index' = op.a + 1
  /\ UNCHANGED <<code, build, unitVars, cur, pc, ops, program_counter>>

OptCommit ==
  /\ CommitPoint
  /\ ~IsScanLoop(ops, index)
  /\ IF LookaheadOutOfBounds(ops, index) \/ SliceOutOfBounds(ops, index)
     THEN /\ Panics(cur, "index out of bounds")
          /\ OptReset
          /\ UNCHANGED <<program, memory, pointer, stdin, stdout>>
     ELSE /\ \E o \in Orders(DOMAIN block_effects) :
               output_ops' = output_ops \o FullCommit(block_effects, o, ptr_offset) \o <<op>>
          /\ block_effects' = NoEffects
          /\ ptr_offset' = 0
          /\ index' = index + 1
          /\ UNCHANGED <<unitVars, cur, pc, ops>>
  /\ UNCHANGED <<code, build, program_counter>>

\* compile without the second link_loops
InstalledUnlinked(out) == [panic |-> "none", ops |-> out, at |-> Len(out)]

\* what compile stores in self.program: the optimizer's output, linked again
Installed(out) == link_loops(out)

\* compile after optimize returns: the second link_loops and the assignment
CompileInstall ==
  /\ pc = "optimize"
  /\ index >= Len(ops)
  /\ LET r == Installed(output_ops)
     IN  IF r.panic # "none"
         THEN /\ Panics(cur, r.panic)
              /\ UNCHANGED program
         ELSE /\ program' = [program EXCEPT ![cur] = r.ops]
              /\ status' = [status EXCEPT ![cur] = AfterCompile(cur)]
              /\ cur' = "none"
              /\ pc' = "idle"
              /\ UNCHANGED panic
  /\ OptReset
  /\ UNCHANGED <<code, build, memory, pointer, stdin, stdout, program_counter>>

(* -------------------------------- run ---------------------------------- *)

\* the mask the run method of the build applies to every cell address
Mask == IF build = "brainfuck.rs" THEN MEMORY_SIZE ELSE MEMORY_MASK

\* "pos & MEMORY_SIZE": the index used on memory for address pos
CellIndex(pos) == BitAnd(pos, Mask)

\* the address pointer.wrapping_add_signed(rel_pos) of unit u
Pos(u, rel_pos) == wrapping_add_signed(pointer[u], rel_pos)

\* indexing memory with i panics unless i is inside the array
InBounds(i) == i \in Tape

run ==
  /\ pc = "idle"
  /\ \E u \in Units :
       /\ status[u] \in {"new", "compiled"}
       /\ cur' = u
  /\ pc' = "run"
  /\ program_counter' = 0
  /\ UNCHANGED <<code, build, unitVars, optVars>>

Running == pc = "run" /\ program_counter < Len(program[cur])
instr == At(program[cur], program_counter)

\* the call of run returns
Returns ==
  /\ status' = [status EXCEPT ![cur] = "halted"]
  /\ cur' = "none"
  /\ pc' = "idle"
  /\ program_counter' = 0
  /\ UNCHANGED panic

\* the call of run panics
RunPanics(msg) ==
  /\ Panics(cur, msg)
  /\ program_counter' = 0

\* "program_counter += 1" at the end of the loop body, after a jump to target
Advance(target) ==
  /\ program_counter' = target + 1
  /\ UNCHANGED <<status, panic, cur, pc>>

\* "if program_counter >= program_len { break }"
RunPastEnd ==
  /\ pc = "run"
  /\ program_counter >= Len(program[cur])
  /\ Returns
  /\ UNCHANGED <<code, build, program, memory, pointer, stdin, stdout, optVars>>

\* Opcode::Increment(rel_pos, rel_val)
ExecIncrement ==
  /\ Running
  /\ instr.op = "Increment"
  /\ LET i == CellIndex(Pos(cur, instr.a))
     IN  IF InBounds(i)
         THEN /\ memory' = [memory EXCEPT ![cur][i] = wrapping_add(@, instr.b)]
              /\ Advance(program_counter)
         ELSE /\ RunPanics("index out of bounds")
              /\ UNCHANGED memory
  /\ UNCHANGED <<code, build, program, pointer, stdin, stdout, optVars>>

\* Opcode::Set(rel_pos, val)
ExecSet ==
  /\ Running
  /\ instr.op = "Set"
  /\ LET i == CellIndex(Pos(cur, instr.a))
     IN  IF InBounds(i)
         THEN /\ memory' = [memory EXCEPT ![cur][i] = instr.b]
              /\ Advance(program_counter)
         ELSE /\ RunPanics("index out of bounds")
              /\ UNCHANGED memory
  /\ UNCHANGED <<code, build, program, pointer, stdin, stdout, optVars>>

\* a pointer that moves one cell in the direction of rel_pos, whatever its size
MovedPointerByOne(p, rel_pos) ==
  wrapping_add_signed(p, IF rel_pos < 0 THEN -1 ELSE IF rel_pos > 0 THEN 1 ELSE 0)

\* the pointer after "*pointer = pointer.wrapping_add_signed(rel_pos)"
MovedPointer(p, rel_pos) == wrapping_add_signed(p, rel_pos)

\* Opcode::MovePointer(rel_pos)
ExecMovePointer ==
  /\ Running
  /\ instr.op = "MovePointer"
  /\ pointer' = [pointer EXCEPT ![cur] = MovedPointer(@, instr.a)]
  /\ Advance(program_counter)
  /\ UNCHANGED <<code, build, program, memory, stdin, stdout, optVars>>

\* a loop end that jumps onto its loop start, which is then tested again
LoopEndJumpRetest(cell, counter, start) == IF cell # 0 THEN start - 1 ELSE counter

\* the counter a loop boundary with the given target leaves before "+= 1"
LoopStartJump(cell, counter, end) == IF cell = 0 THEN end ELSE counter
LoopEndJump(cell, counter, start) == IF cell # 0 THEN start ELSE counter

\* Opcode::LoopStart(end)
ExecLoopStart ==
  /\ Running
  /\ instr.op = "LoopStart"
  /\ LET i == CellIndex(pointer[cur])
     IN  IF InBounds(i)
         THEN Advance(LoopStartJump(memory[cur][i], program_counter, instr.a))
         ELSE RunPanics("index out of bounds")
  /\ UNCHANGED <<code, build, program, memory, pointer, stdin, stdout, optVars>>

\* Opcode::LoopEnd(start)
ExecLoopEnd ==
  /\ Running
  /\ instr.op = "LoopEnd"
  /\ LET i == CellIndex(pointer[cur])
     IN  IF InBounds(i)
         THEN Advance(LoopEndJump(memory[cur][i], program_counter, instr.a))
         ELSE RunPanics("index out of bounds")
  /\ UNCHANGED <<code, build, program, memory, pointer, stdin, stdout, optVars>>

\* Opcode::ScanZero(direction): one test of the while condition, and one
\* execution of its body when the cell is not zero
ExecScanZero ==
  /\ Running
  /\ instr.op = "ScanZero"
  /\ LET i == CellIndex(pointer[cur])
     IN  IF ~InBounds(i)
         THEN /\ RunPanics("index out of bounds")
              /\ UNCHANGED pointer
         ELSE IF memory[cur][i] # 0
              THEN /\ pointer' = [pointer EXCEPT ![cur] = MovedPointer(@, instr.a)]
                   /\ UNCHANGED <<status, panic, cur, pc, program_counter>>
              ELSE /\ Advance(program_counter)
                   /\ UNCHANGED pointer
  /\ UNCHANGED <<code, build, program, memory, stdin, stdout, optVars>>

\* Opcode::Output(rel_pos)
ExecOutput ==
  /\ Running
  /\ instr.op = "Output"
  /\ Len(stdout[cur]) < MaxOutput
  /\ LET i == CellIndex(Pos(cur, instr.a))
     IN  IF InBounds(i)
         THEN /\ stdout' = [stdout EXCEPT ![cur] = Append(@, memory[cur][i])]
              /\ Advance(program_counter)
         ELSE /\ RunPanics("index out of bounds")
              /\ UNCHANGED stdout
  /\ UNCHANGED <<code, build, program, memory, pointer, stdin, optVars>>

\* the number of bytes read_exact takes from the input for the buffer
\* memory[(pos & MEMORY_MASK)..(pos & MEMORY_MASK)]
InputBufferLen(i) == i - i

\* Opcode::Input: todo!() in brainfuck.rs, a read_exact into a slice of memory
\* in interpreter.rs
ExecInput ==
  /\ Running
  /\ instr.op = "Input"
  /\ IF build = "brainfuck.rs"
     THEN /\ RunPanics("not yet implemented")
          /\ UNCHANGED <<memory, stdin>>
     ELSE LET i == CellIndex(Pos(cur, instr.a))
              n == InputBufferLen(i)
          IN  IF i > MEMORY_SIZE
              THEN /\ RunPanics("index out of bounds")
                   /\ UNCHANGED <<memory, stdin>>
              ELSE IF Len(stdin[cur]) < n
                   THEN /\ RunPanics("failed to fill whole buffer")
                        /\ UNCHANGED <<memory, stdin>>
                   ELSE /\ memory' = [memory EXCEPT ![cur] =
                             [c \in Tape |-> IF c >= i /\ c < i + n
                                             THEN stdin[cur][c - i + 1] ELSE @[c]]]
                        /\ stdin' = [stdin EXCEPT ![cur] = SubSeq(@, n + 1, Len(@))]
                        /\ Advance(program_counter)
  /\ UNCHANGED <<code, build, program, pointer, stdout, optVars>>

\* Opcode::Eof => break
ExecEof ==
  /\ Running
  /\ instr.op = "Eof"
  /\ Returns
  /\ UNCHANGED <<code, build, program, memory, pointer, stdin, stdout, optVars>>

(* --------------------------- specification ----------------------------- *)

Next ==
  \/ compile
  \/ compile_without_optimizations
  \/ OptIncrement
  \/ OptMovePointer
  \/ OptOutputInput
  \/ OptClearLoop
  \/ OptScanLoop
  \/ OptCommit
  \/ CompileInstall
  \/ run
  \/ RunPastEnd
  \/ ExecIncrement
  \/ ExecSet
  \/ ExecMovePointer
  \/ ExecLoopStart
  \/ ExecLoopEnd
  \/ ExecScanZero
  \/ ExecOutput
  \/ ExecInput
  \/ ExecEof

Spec == Init /\ [][Next]_vars

(* ------------------------------- claims -------------------------------- *)

\* unit u ran a compiled program and its run returned
RanToEnd(u) == status[u] = "halted" /\ program[u] # << >>

\* unit u ran a compiled program and its run returned or panicked
RunOver(u) == status[u] \in {"halted", "panicked"} /\ program[u] # << >>

\* C1: optimization transparency.  When the optimized and the unoptimized
\* program of the same source have both been run from the same state, they
\* ended the same way (returned or panicked), wrote the same bytes and left
\* the same tape and pointer.
C1_OptimizationTransparency ==
  (RunOver("optimized") /\ RunOver("plain")) =>
     /\ status["optimized"] = status["plain"]
     /\ RanToEnd("plain") =>
          /\ stdout["optimized"] = stdout["plain"]
          /\ memory["optimized"] = memory["plain"]
          /\ pointer["optimized"] = pointer["plain"]

\* the number of occurrences of character c among the first n characters
RECURSIVE CountChar(_, _, _)
CountChar(chars, c, n) ==
  IF n = 0 THEN 0
  ELSE CountChar(chars, c, n - 1) + (IF chars[n] = c THEN 1 ELSE 0)

\* the first character position at which more loops were closed than opened, 0 if none
FirstUnexpectedEnd(chars) ==
  LET bad == {n \in 1..Len(chars) : CountChar(chars, "]", n) > CountChar(chars, "[", n)}
  IN  IF bad = {} THEN 0 ELSE CHOOSE n \in bad : \A k \in bad : n <= k

\* the bracket error of a source text, by counting brackets
BracketError(chars) ==
  IF FirstUnexpectedEnd(chars) # 0 THEN "Unexpected loop end"
  ELSE IF CountChar(chars, "[", Len(chars)) > CountChar(chars, "]", Len(chars))
       THEN "Unclosed loop"
       ELSE "none"

\* the number of instruction characters among the first n characters
RECURSIVE CountTokens(_, _)
CountTokens(chars, n) ==
  IF n = 0 THEN 0
  ELSE CountTokens(chars, n - 1) + (IF TokenOf(chars[n]) # "None" THEN 1 ELSE 0)

\* the compile call of unit u panicked
CompileFailed(u) == status[u] = "panicked" /\ program[u] = << >>

\* the compile call of unit u installed a program
CompileDone(u) == program[u] # << >>

\* unit u holds an installed program and no call is executing; a run never
\* assigns program, so what holds of the program here holds during the runs
Compiled(u) == pc = "idle" /\ CompileDone(u)

\* C2: bracket validation.  A compile call fails with "Unexpected loop end"
\* exactly when the source closes a loop that is not open, the scan stopping at
\* the first such loop end; it fails with "Unclosed loop" exactly when there is
\* no such loop end and a loop is still open at the end; a balanced source
\* compiles.
C2_BracketValidation ==
  /\ \A u \in Units :
       /\ CompileFailed(u) => panic[u] = BracketError(code)
       /\ Compiled(u) => BracketError(code) = "none"
  /\ (pc = "idle" /\ \A u \in Units : status[u] = "new") =>
       LET r == link_loops(parse(code))
       IN  /\ r.panic = BracketError(code)
           /\ r.panic = "Unexpected loop end" =>
                r.at + 1 = CountTokens(code, FirstUnexpectedEnd(code))

\* C2 witness: a source that opens a loop, closes one too many and opens
\* another was rejected for its unexpected loop end
C2_Witness ==
  /\ CompileFailed("optimized")
  /\ panic["optimized"] = "Unexpected loop end"
  /\ CountChar(code, "[", Len(code)) >= 2
  /\ FirstUnexpectedEnd(code) > 1

\* C3: no partial program on a compile error.  The step in which a compile
\* call panics leaves the stored program and the execution state of every unit
\* as they were.
C3_NoPartialProgram ==
  [][\A u \in Units :
       (status[u] = "new" /\ status'[u] = "panicked") =>
          /\ program' = program
          /\ memory' = memory
          /\ pointer' = pointer]_vars

\* C3 witness: both compile calls failed on an unclosed loop, on units that were
\* built with a tape that is not empty
C3_Witness ==
  /\ \A u \in Units : CompileFailed(u) /\ panic[u] = "Unclosed loop"
  /\ \E i \in Tape : memory["plain"][i] # 0

\* every loop boundary of p points at its partner, the start before the end
Paired(p) ==
  \A i \in 0..(Len(p) - 1) :
    /\ At(p, i).op = "LoopStart" =>
         /\ At(p, i).a > i
         /\ At(p, i).a < Len(p)
         /\ At(p, At(p, i).a) = LoopEnd(i)
    /\ At(p, i).op = "LoopEnd" =>
         /\ At(p, i).a < i
         /\ At(p, i).a >= 0
         /\ At(p, At(p, i).a) = LoopStart(i)

\* no two loops of p overlap without one containing the other
Nested(p) ==
  \A i, j \in 0..(Len(p) - 1) :
    (At(p, i).op = "LoopStart" /\ At(p, j).op = "LoopStart" /\ i < j /\ j < At(p, i).a)
      => At(p, j).a < At(p, i).a

\* C4: loop pairing invariant.  In every installed program each loop start
\* points at a later loop end that points back at it, each loop end at an
\* earlier loop start that points at it, and the loops are properly nested.
C4_LoopPairing ==
  \A u \in Units : Compiled(u) => Paired(program[u]) /\ Nested(program[u])

\* C4 witness: an optimized program with a nested loop whose boundaries sit at
\* other indices than in the unoptimized program
C4_Witness ==
  /\ CompileDone("optimized")
  /\ CompileDone("plain")
  /\ \E i, j \in 0..(Len(program["optimized"]) - 1) :
       /\ At(program["optimized"], i).op = "LoopStart"
       /\ At(program["optimized"], j).op = "LoopStart"
       /\ i < j
       /\ At(program["plain"], i).op # "LoopStart"

\* the instruction run is about to execute reads or writes a cell
AccessesCell ==
  /\ Running
  /\ instr.op \in {"Increment", "Set", "LoopStart", "LoopEnd", "ScanZero", "Output"}

\* the address of that cell and the index used on memory for it
AccessedAddress ==
  IF instr.op \in {"Increment", "Set", "Output"} THEN Pos(cur, instr.a) ELSE pointer[cur]
AccessedIndex == CellIndex(AccessedAddress)

\* C5: no run-time fault from addressing.  Every index run uses on the tape is
\* less than the tape length, and no call panics on an index.
C5_NoAddressingFault ==
  /\ AccessesCell => AccessedIndex < MEMORY_SIZE
  /\ \A u \in Units : panic[u] # "index out of bounds"

\* C6: wraparound addressing.  One step right of the last tape index is
\* index 0: an access at address MEMORY_SIZE, the tape length, uses index 0.
C6_WraparoundAddressing ==
  (AccessesCell /\ AccessedAddress = MEMORY_SIZE) => AccessedIndex = 0

\* C7: input semantics.  Executing input(offset) with a byte waiting takes
\* exactly that byte from the input, stores it in the cell at pointer + offset,
\* leaves the pointer and the other cells alone and continues with the next
\* instruction.
C7_InputSemantics ==
  [][(Running /\ instr.op = "Input" /\ stdin[cur] # << >>) =>
       /\ stdin'[cur] = Tail(stdin[cur])
       /\ \A c \in Tape :
            memory'[cur][c] = IF c = CellIndex(Pos(cur, instr.a))
                              THEN Head(stdin[cur]) ELSE memory[cur][c]
       /\ pointer' = pointer
       /\ pc' = "run"
       /\ program_counter' = program_counter + 1]_vars

\* the number of leading tokens of toks that are in the set S
RECURSIVE Leading(_, _)
Leading(toks, S) ==
  IF toks = << >> \/ Head(toks) \notin S THEN 0 ELSE 1 + Leading(Tail(toks), S)

\* the sum of the steps (+1, -1) of the tokens toks[from..to]
RECURSIVE TokenSum(_, _, _)
TokenSum(toks, from, to) ==
  IF from > to THEN 0
  ELSE (IF toks[from] \in {"Increment", "MovePointerRight"} THEN 1 ELSE -1)
         + TokenSum(toks, from + 1, to)

Moves == {"MovePointerLeft", "MovePointerRight"}
Increments == {"Increment", "Decrement"}

\* the source is some pointer moves, then a run of increments and decrements of
\* one cell, then the end of the text or an output or input of that cell
RunMoves == Leading(brainfuck_tokens(code), Moves)
RunLength ==
  Leading(SubSeq(brainfuck_tokens(code), RunMoves + 1, Len(brainfuck_tokens(code))), Increments)
RunShape ==
  LET toks == brainfuck_tokens(code)
  IN  /\ RunLength >= 1
      /\ \/ RunMoves + RunLength = Len(toks)
         \/ toks[RunMoves + RunLength + 1] \in {"Output", "Input"}
RunCell == TokenSum(brainfuck_tokens(code), 1, RunMoves)
RunSum == TokenSum(brainfuck_tokens(code), RunMoves + 1, RunMoves + RunLength)

\* what the optimized program starts with for such a source
RunFolded ==
  LET toks == brainfuck_tokens(code)
  IN  (IF RunSum # 0 THEN <<Increment(RunCell, RunSum)>> ELSE << >>)
        \o (IF RunMoves + RunLength = Len(toks)
            THEN CommitPointer(RunCell) \o <<Eof>>
            ELSE IF toks[RunMoves + RunLength + 1] = "Output"
                 THEN <<Output(RunCell)>> ELSE <<Input(RunCell)>>)

ClearPattern(s, i) ==
  /\ i >= 0
  /\ i + 2 < Len(s)
  /\ At(s, i).op = "LoopStart"
  /\ At(s, i + 1).op = "Increment"
  /\ At(s, i + 1).a = 0
  /\ At(s, i + 1).b \in {-1, 1}
  /\ At(s, i + 2).op = "LoopEnd"

\* the index of the first instruction after s[i] that is no pointer move
BodyEnd(s, i) ==
  CHOOSE e \in (i + 1)..(Len(s) - 1) :
    /\ At(s, e).op # "MovePointer"
    /\ \A j \in (i + 1)..(e - 1) : At(s, j).op = "MovePointer"

\* the sum of the steps of the pointer moves s[i+1..e-1]
RECURSIVE BodyStep(_, _, _)
BodyStep(s, i, e) == IF i + 1 >= e THEN 0 ELSE At(s, e - 1).a + BodyStep(s, i, e - 1)

\* s[i] starts a loop whose whole body is pointer moves with a non-zero net step
ScanPattern(s, i) ==
  /\ At(s, i).op = "LoopStart"
  /\ At(s, BodyEnd(s, i)).op = "LoopEnd"
  /\ BodyStep(s, i, BodyEnd(s, i)) # 0

\* the loop starts among s[0..n-1]
LoopStartsBefore(s, n) == {i \in 0..(n - 1) : At(s, i).op = "LoopStart"}

\* the instructions of p with the given opcode, in order
Only(p, name) == LET Is(o) == o.op = name IN SelectSeq(p, Is)

\* the source as optimize receives it
Linked == link_loops(parse(code)).ops

\* C9: clear-loop rewrite.  Every loop whose body is one odd increment at
\* offset 0, wherever it stands, is consumed whole by the optimizer and leaves
\* a pending set-to-zero at the accumulated pointer offset; no loop start or
\* loop end is emitted for it, in the optimizer's output or in the installed
\* program.
C9_ClearLoopRewrite ==
  /\ pc = "optimize" =>
       /\ \A i \in 0..(Len(ops) - 1) : ClearPattern(ops, i) => index \notin {i + 1, i + 2}
       /\ ClearPattern(ops, index - 3) =>
            /\ ptr_offset \in DOMAIN block_effects
            /\ block_effects[ptr_offset] = EffectSet(0)
       /\ \A k \in 1..Len(output_ops) :
            /\ output_ops[k].op = "LoopEnd" => ~ClearPattern(ops, output_ops[k].a)
            /\ output_ops[k].op = "LoopStart" =>
                 ~ClearPattern(ops, At(ops, output_ops[k].a).a)
  /\ Compiled("optimized") =>
       Len(Only(program["optimized"], "LoopStart")) <=
         Cardinality({i \in LoopStartsBefore(Linked, Len(Linked)) : ~ClearPattern(Linked, i)})

\* C9 witness: a "[+]" nested in another loop, after a pending move, has just
\* been consumed
C9_Witness ==
  /\ pc = "optimize"
  /\ ClearPattern(ops, index - 3)
  /\ At(ops, index - 2).b = 1
  /\ ptr_offset # 0
  /\ Len(Only(output_ops, "LoopStart")) = 1
  /\ Len(Only(output_ops, "LoopEnd")) = 0

\* the net steps of the scan loops that start among s[0..n-1], in order
RECURSIVE ScanSteps(_, _)
ScanSteps(s, n) ==
  IF n = 0 THEN << >>
  ELSE ScanSteps(s, n - 1) \o
         (IF ScanPattern(s, n - 1)
          THEN <<ScanZero(BodyStep(s, n - 1, BodyEnd(s, n - 1)))>> ELSE << >>)

\* the loop starts among s[0..n-1] that no rewrite applies to
KeptLoops(s, n) ==
  {i \in LoopStartsBefore(s, n) : ~ClearPattern(s, i) /\ ~ScanPattern(s, i)}

\* C10: scan-to-zero rewrite.  Every loop whose whole body is pointer moves
\* with a non-zero net step s becomes exactly one scan instruction with step
\* s and no loop start or loop end; a move-only loop with net step zero and an
\* empty loop keep their loop start and loop end.
C10_ScanRewrite ==
  /\ pc = "optimize" =>
       /\ Only(output_ops, "ScanZero") = ScanSteps(ops, index)
       /\ {At(ops, o.a).a : o \in {output_ops[k] : k \in
              {k \in 1..Len(output_ops) : output_ops[k].op = "LoopStart"}}}
            = KeptLoops(ops, index)
       /\ \A k \in 1..Len(output_ops) :
            output_ops[k].op = "LoopEnd" => output_ops[k].a \in KeptLoops(ops, index)
  /\ Compiled("optimized") =>
       /\ Only(program["optimized"], "ScanZero") = ScanSteps(Linked, Len(Linked))
       /\ Len(Only(program["optimized"], "LoopStart"))
            = Cardinality(KeptLoops(Linked, Len(Linked)))
       /\ Len(Only(program["optimized"], "LoopEnd"))
            = Cardinality(KeptLoops(Linked, Len(Linked)))

\* C10 witness: a loop of three moves became one scan with step -3, with
\* nothing left of its loop start and loop end
C10_Witness ==
  /\ CompileDone("optimized")
  /\ \E i \in 1..Len(program["optimized"]) : program["optimized"][i] = ScanZero(-3)
  /\ Only(program["optimized"], "LoopStart") = << >>

\* the address i steps of size step away from address p
ScanAddress(p, step, i) == wrapping_add_signed(p, i * step)

\* on the tape mem the k cells at p, p + step, ..., p + (k-1)*step (masked) are
\* not zero and the cell at p + k*step is zero
ScanRunOf(mem, p, step, k) ==
  /\ \A i \in 0..(k - 1) :
       /\ InBounds(CellIndex(ScanAddress(p, step, i)))
       /\ mem[CellIndex(ScanAddress(p, step, i))] # 0
  /\ InBounds(CellIndex(ScanAddress(p, step, k)))
  /\ mem[CellIndex(ScanAddress(p, step, k))] = 0

\* the numbers of non-zero cells a scan can pass before it meets a zero cell
ScanLengths == 0..(MEMORY_SIZE + 1)

\* a scan that is the first instruction of the program of unit u has finished,
\* having started from the state s
ScanFinishedFrom(u, s, k) ==
  /\ pc = "run"
  /\ cur = u
  /\ program_counter = 1
  /\ At(program[u], 0).op = "ScanZero"
  /\ memory[u] = s.memory
  /\ ScanRunOf(s.memory, s.pointer, At(program[u], 0).a, k)

\* C11: scan execution.  Executing scan-to-zero(step) from pointer p on a tape
\* whose k cells at p, p + step, ..., p + (k-1)*step are not zero and whose
\* cell at p + k*step is zero advances the pointer by exactly k*step and stops
\* there, changing no cell; with k = 0 the pointer does not move.  Stated for
\* a scan that starts a program, from the state the unit was built with, and
\* step by step for every scan: with k = 0 the scan ends where it is, with
\* k > 0 it moves by step to an address with k - 1 cells to pass.
C11_ScanExecution ==
  /\ [](\A u \in Units :
          (pc = "run" /\ cur = u /\ program_counter = 1
             /\ At(program[u], 0).op = "ScanZero") =>
            \E s \in InitStates, k \in ScanLengths :
              /\ ScanFinishedFrom(u, s, k)
              /\ pointer[u] = ScanAddress(s.pointer, At(program[u], 0).a, k))
  /\ [][\A k \in ScanLengths :
          (Running /\ instr.op = "ScanZero"
             /\ ScanRunOf(memory[cur], pointer[cur], instr.a, k)) =>
            /\ memory' = memory
            /\ pc' = "run"
            /\ cur' = cur
            /\ IF k = 0
               THEN /\ pointer' = pointer
                    /\ program_counter' = program_counter + 1
               ELSE /\ pointer'[cur] = ScanAddress(pointer[cur], instr.a, 1)
                    /\ program_counter' = program_counter
                    /\ ScanRunOf(memory'[cur], pointer'[cur], instr.a, k - 1)
                    /\ ScanAddress(pointer'[cur], instr.a, k - 1)
                         = ScanAddress(pointer[cur], instr.a, k)]_vars

\* C11 witness: a scan that starts the program has passed two or more cells
\* and stopped on the zero cell after them
C11_Witness ==
  \E u \in Units, s \in InitStates, k \in ScanLengths :
    /\ k >= 2
    /\ ScanFinishedFrom(u, s, k)
    /\ pointer[u] = ScanAddress(s.pointer, At(program[u], 0).a, k)
    /\ pointer[u] # s.pointer

\* C12: pointer range invariant.  The pointer stored in the execution state
\* is always a masked value, an index inside the tape range: a move and every
\* step of a scan store the old pointer plus the step, masked.
C12_PointerRange ==
  \A u \in Units : pointer[u] = BitAnd(pointer[u], MEMORY_SIZE)

\* the cell under the pointer of the running unit
CurrentCell == memory[cur][CellIndex(pointer[cur])]

\* C13: program-counter stepping.  run starts with the counter at 0.  After
\* an instruction that does not end the run the counter is t + 1 after
\* loop-start(t) on a zero cell, where t is the index of the loop's end; s + 1
\* after loop-end(s) on a non-zero cell, where s is the index of the loop's
\* start; and the counter plus one in every other case.  (A scan that has not
\* yet met its zero cell is still executing: the counter stays.)
C13_CounterStepping ==
  [][/\ (pc = "idle" /\ pc' = "run") => program_counter' = 0
     /\ (Running /\ instr.op = "LoopStart") =>
          At(program[cur], instr.a) = LoopEnd(program_counter)
     /\ (Running /\ instr.op = "LoopEnd") =>
          At(program[cur], instr.a) = LoopStart(program_counter)
     /\ (Running /\ pc' = "run") =>
          program_counter' =
            CASE instr.op = "LoopStart" /\ CurrentCell = 0 -> instr.a + 1
              [] instr.op = "LoopEnd" /\ CurrentCell # 0 -> instr.a + 1
              [] instr.op = "ScanZero" /\ CurrentCell # 0 -> program_counter
              [] OTHER -> program_counter + 1]_vars

\* C13 witness: the run of "[.]" is at the first body instruction again,
\* having written a byte: its loop end jumped back past the loop start
C13_Witness ==
  /\ pc = "run"
  /\ program[cur] = <<LoopStart(2), Output(0), LoopEnd(0), Eof>>
  /\ program_counter = 1
  /\ Len(stdout[cur]) >= 2

\* C14: deterministic compilation.  Compiling the same source text again
\* yields the instruction sequence the unit already holds, and at every full
\* commit point what is emitted does not depend on the order in which the map
\* of pending effects is iterated.
C14_DeterministicCompilation ==
  /\ (pc = "optimize" /\ index >= Len(ops) /\ program[cur] # << >>) =>
       Installed(output_ops).ops = program[cur]
  /\ CommitPoint =>
       \A o1, o2 \in Orders(DOMAIN block_effects) :
         FullCommit(block_effects, o1, ptr_offset) = FullCommit(block_effects, o2, ptr_offset)

\* the instruction that applies the effect pending in m for offset k: none
\* when nothing is pending there or the pending increment is zero
EffectInstruction(m, k) ==
  IF k \notin DOMAIN m THEN << >>
  ELSE IF m[k].kind = "Set" THEN <<Set(k, m[k].v)>>
  ELSE IF m[k].v # 0 THEN <<Increment(k, m[k].v)>>
  ELSE << >>

\* C15: partial commit at I/O.  When the optimizer meets output or input at
\* offset o with accumulated pointer offset a, it emits nothing but the
\* instruction of the effect pending exactly at a + o (if there is one) and
\* then the I/O instruction with offset a + o; it removes that effect from the
\* pending map and leaves every other pending effect and the accumulated
\* pointer offset as they were; no move instruction is emitted.
C15_PartialCommit ==
  [][(Optimizing /\ op.op \in {"Output", "Input"}) =>
       LET r == ptr_offset + op.a
       IN  /\ output_ops' = output_ops \o EffectInstruction(block_effects, r)
                                       \o <<[op |-> op.op, a |-> r, b |-> 0]>>
           /\ DOMAIN block_effects' = (DOMAIN block_effects) \ {r}
           /\ \A k \in DOMAIN block_effects' : block_effects'[k] = block_effects[k]
           /\ ptr_offset' = ptr_offset
           /\ index' = index + 1]_vars

\* C15 witness: after a pending move, an output has flushed the effect of its
\* own cell and left the effect of another cell pending
C15_Witness ==
  /\ pc = "optimize"
  /\ index >= 1
  /\ At(ops, index - 1).op = "Output"
  /\ ptr_offset # 0
  /\ Len(output_ops) = 2
  /\ output_ops[1] = Increment(ptr_offset, 1)
  /\ output_ops[2] = Output(ptr_offset)
  /\ DOMAIN block_effects = {0}

\* the instructions emitted by the step
Emitted == SubSeq(output_ops', Len(output_ops) + 1, Len(output_ops'))

\* the source is some pointer moves, a clear loop, a run of increments and
\* decrements, then the end of the text or an output or input
SetMoves == Leading(brainfuck_tokens(code), Moves)
SetRest ==
  SubSeq(brainfuck_tokens(code), SetMoves + 1, Len(brainfuck_tokens(code)))
SetRunLength == Leading(SubSeq(SetRest, 4, Len(SetRest)), Increments)
SetShape ==
  /\ Len(SetRest) >= 4
  /\ SetRest[1] = "LoopStart"
  /\ SetRest[2] \in Increments
  /\ SetRest[3] = "LoopEnd"
  /\ SetRunLength >= 1
  /\ \/ Len(SetRest) = 3 + SetRunLength
     \/ SetRest[4 + SetRunLength] \in {"Output", "Input"}
SetCell == TokenSum(brainfuck_tokens(code), 1, SetMoves)
SetSum == TokenSum(SetRest, 4, 3 + SetRunLength)

\* what the optimized program starts with for such a source
SetFolded ==
  <<Set(SetCell, SetSum % U8)>>
    \o (IF Len(SetRest) = 3 + SetRunLength
        THEN CommitPointer(SetCell) \o <<Eof>>
        ELSE IF SetRest[4 + SetRunLength] = "Output"
             THEN <<Output(SetCell)>> ELSE <<Input(SetCell)>>)

\* C16: merging into a pending set.  An increment with delta d that arrives
\* for an offset holding a pending set with value v leaves a single pending
\* set with value (v + d) modulo 256 and emits nothing; when a pending set
\* leaves the map, exactly one set instruction and no increment instruction
\* is emitted for its offset; so a clear loop followed by n increments and
\* decrements compiles to one set of their sum modulo 256.
C16_SetMerging ==
  /\ [][(Optimizing /\ op.op = "Increment"
           /\ (ptr_offset + op.a) \in DOMAIN block_effects
           /\ block_effects[ptr_offset + op.a].kind = "Set") =>
          /\ block_effects' = [block_effects EXCEPT ![ptr_offset + op.a] =
                                 EffectSet((@.v + op.b) % U8)]
          /\ output_ops' = output_ops]_vars
  /\ [][pc = "optimize" =>
          \A k \in DOMAIN block_effects :
            (block_effects[k].kind = "Set" /\ k \notin DOMAIN block_effects') =>
              /\ Cardinality({i \in 1..Len(Emitted) :
                    Emitted[i].op \in {"Set", "Increment"} /\ Emitted[i].a = k}) = 1
              /\ \E i \in 1..Len(Emitted) : Emitted[i] = Set(k, block_effects[k].v)]_vars
  /\ []((Compiled("optimized") /\ SetShape) =>
          /\ Len(program["optimized"]) >= Len(SetFolded)
          /\ SubSeq(program["optimized"], 1, Len(SetFolded)) = SetFolded)

\* C16 witness: a clear loop followed by decrements was compiled to one set
\* of a value that wrapped around
C16_Witness ==
  /\ Compiled("optimized")
  /\ SetShape
  /\ SetSum < 0
  /\ program["optimized"][1] = Set(SetCell, U8 + SetSum)

\* p has no loop start, loop end or scan instruction
LoopFree(p) == \A i \in 1..Len(p) : p[i].op \notin {"LoopStart", "LoopEnd", "ScanZero"}

\* C17: termination of run.  run stops exactly when it fetches the end-marker
\* or when the counter is at or past the program length; on a never-compiled
\* unit it stops at once and leaves the state as it was; on a compiled program
\* without loop start, loop end and scan it executes the instructions before
\* the end-marker one after the other, each once, and then stops.
C17_RunTermination ==
  [][/\ (pc = "run" /\ pc' = "idle") =>
          \/ program_counter >= Len(program[cur])
          \/ instr.op = "Eof"
     /\ (pc = "run" /\ (program_counter >= Len(program[cur]) \/ instr.op = "Eof")) =>
          /\ pc' = "idle"
          /\ status'[cur] = "halted"
     /\ (pc = "run" /\ program[cur] = << >>) =>
          /\ pc' = "idle"
          /\ memory' = memory
          /\ pointer' = pointer
     /\ (Running /\ LoopFree(program[cur]) /\ instr.op # "Eof") =>
          /\ pc' = "run"
          /\ program_counter' = program_counter + 1]_vars

\* C18: ownership frame.  Every step of compile and of
\* compile_without_optimizations leaves every tape cell and the pointer
\* unchanged; the program it installs is made from the source alone, whatever
\* program the unit held; every step of run leaves the stored program and the
\* tape length unchanged.
C18_OwnershipFrame ==
  [][/\ (pc = "optimize" \/ (pc = "idle" /\ pc' # "run")) =>
          /\ memory' = memory
          /\ pointer' = pointer
     /\ (pc = "idle" /\ program'["plain"] # program["plain"]) =>
          program'["plain"] = link_loops(parse(code)).ops
     /\ (pc = "optimize" /\ program' # program) =>
          /\ program'[cur] = link_loops(output_ops).ops
          /\ \A u \in Units \ {cur} : program'[u] = program[u]
     /\ (pc = "run" \/ pc' = "run") =>
          /\ program' = program
          /\ \A u \in Units : DOMAIN memory'[u] = Tape]_vars

\* C18 witness: a unit was compiled again after its run and still has the
\* tape and pointer its run left, which no unit is built with
C18_Witness ==
  \E u \in Units :
    /\ status[u] = "recompiled"
    /\ program[u] # << >>
    /\ \A s \in InitStates : memory[u] # s.memory /\ pointer[u] # s.pointer

\* in no prefix of s do the loop ends outnumber the loop starts
BalancedPrefixes(s) ==
  \A n \in 0..Len(s) :
    Len(Only(SubSeq(s, 1, n), "LoopEnd")) <= Len(Only(SubSeq(s, 1, n), "LoopStart"))

\* s is bracket-balanced
Balanced(s) ==
  /\ BalancedPrefixes(s)
  /\ Len(Only(s, "LoopEnd")) = Len(Only(s, "LoopStart"))

\* C19: the optimizer preserves bracket balance.  For a source the first
\* link_loops pass accepts, the optimizer's output never closes a loop it did
\* not open and is bracket-balanced when optimize returns, so the second
\* link_loops pass does not panic and a compile call fails only in the first
\* pass; the reads after a loop start (the two instructions after it, the
\* body up to its linked end) stay inside the sequence.
C19_BalancePreserved ==
  /\ pc = "optimize" =>
       /\ BalancedPrefixes(output_ops)
       /\ index >= Len(ops) =>
            /\ Balanced(output_ops)
            /\ link_loops(output_ops).panic = "none"
  /\ (Optimizing /\ op.op = "LoopStart") =>
       /\ index + 2 < Len(ops)
       /\ index + 1 <= op.a
       /\ op.a < Len(ops)
  /\ CompileFailed("optimized") =>
       /\ link_loops(parse(code)).panic # "none"
       /\ panic["optimized"] = link_loops(parse(code)).panic

\* C19 witness: optimize is about to return an output that keeps a loop and
\* has fewer loops than its input, a rewrite having removed one
C19_Witness ==
  /\ pc = "optimize"
  /\ index >= Len(ops)
  /\ Len(Only(output_ops, "LoopStart")) >= 1
  /\ Len(Only(output_ops, "LoopEnd")) < Len(Only(ops, "LoopEnd"))

\* C20: end-marker placement.  Every installed program holds exactly one
\* end-marker, as its last instruction; when optimize returns, its output
\* ends with the end-marker and no cell effect and no pointer move is still
\* pending; the counter of a run of an installed program never reaches the
\* program length, so such a run returns at the end-marker only.
C20_EndMarker ==
  /\ \A u \in Units :
       Compiled(u) =>
         /\ Len(Only(program[u], "Eof")) = 1
         /\ program[u][Len(program[u])] = Eof
  /\ (pc = "optimize" /\ index >= Len(ops)) =>
       /\ output_ops # << >>
       /\ output_ops[Len(output_ops)] = Eof
       /\ block_effects = NoEffects
       /\ ptr_offset = 0
  /\ (pc = "run" /\ program[cur] # << >>) => program_counter < Len(program[cur])

\* C20 witness: the run of an optimized program whose source ends in a clear
\* loop or a scan loop has returned
C20_Witness ==
  /\ status["optimized"] = "halted"
  /\ Len(program["optimized"]) >= 2
  /\ program["optimized"][Len(program["optimized"]) - 1].op \in {"Set", "ScanZero"}
  /\ Linked[Len(Linked) - 1].op = "LoopEnd"

====
